---- MODULE Spec2Model ----
(***************************************************************************)
(* Keccak-256 sponge arithmetization of the hyperplonk benchmark:          *)
(*   - src/utils/src/lib.rs            generate_keccak_input               *)
(*   - src/hyperplonk/src/keccak/trace.rs      the trace generator         *)
(*   - src/hyperplonk/src/keccak/sponge_air.rs the sponge constraints      *)
(* 64-bit words are modelled exactly, as the set of their one-bit          *)
(* positions (a subset of 0..63); field elements are integers modulo the   *)
(* KoalaBear prime.                                                        *)
(***************************************************************************)
EXTENDS Integers, Sequences, FiniteSets, TLC

(***************************************************************************)
(* Bounds of the model.                                                    *)
(***************************************************************************)
\* Number of invocations of the generator in one run of repeated calls.
MaxInvocations == 3
\* A message length whose trace holds a whole padding permutation: three real
\* blocks, 128 rows.
LongInputSize == 272
\* Largest message length (bytes) the generator is run on.
MaxInputSize == 136
\* Largest trace height of the flag columns put under the constraints alone.
MaxAdvHeight == 5
MaxBlocks == 40
MaxBbHeight == 48

(***************************************************************************)
(* Program constants.                                                      *)
(***************************************************************************)
RATE_BYTES == 136
STATE_BITS == 1600
RATE_BITS == 1088
DIGEST_BITS == 256
DIGEST_LIMBS == DIGEST_BITS \div 16
NUM_ROUNDS == 24
NUM_ROUNDS_MIN_1 == NUM_ROUNDS - 1
\* p3_keccak_air: the number of columns of the permutation trace
NUM_KECCAK_COLS == 2633
\* sponge_air.rs:18-25: the columns appended after the permutation columns
HASH_END_IDX == NUM_KECCAK_COLS
SEEN_END_IDX == HASH_END_IDX + 1
ACTIVE_IDX == SEEN_END_IDX + 1
BLOCK_BITS_START == ACTIVE_IDX + 1
\* variant: the out_bits columns start on the last block_bits column
OUT_BITS_START_mut == BLOCK_BITS_START + RATE_BITS - 1
OUT_BITS_START == BLOCK_BITS_START + RATE_BITS
EXTRA_COLS == 1 + 1 + 1 + RATE_BITS + STATE_BITS
\* sponge_air.rs:36-40: BaseAir::width
width == NUM_KECCAK_COLS + EXTRA_COLS
\* trace.rs:117: the generator's row width
trace_width == NUM_KECCAK_COLS + (1 + 1 + 1 + RATE_BITS + STATE_BITS)
\* the columns of a row behind each field of the sponge part, as eval slices
\* them (sponge_air.rs:133-138) and the generator's set calls address them
\* (trace.rs:144-151, 160, 173)
ExtraFields == {"hash_end", "seen_end", "active", "block_bits", "out_bits"}
ColumnsOf(field) ==
    CASE field = "hash_end" -> {HASH_END_IDX}
      [] field = "seen_end" -> {SEEN_END_IDX}
      [] field = "active" -> {ACTIVE_IDX}
      [] field = "block_bits" -> {BLOCK_BITS_START + i : i \in 0..(RATE_BITS - 1)}
      [] field = "out_bits" -> {OUT_BITS_START + i : i \in 0..(STATE_BITS - 1)}
U64_LIMBS == 4
BITS_PER_LIMB == 16
\* KoalaBear: 2^31 - 2^24 + 1
P == 2130706433

Lanes == 0..24
Pow2(n) == 2 ^ n

(***************************************************************************)
(* Prime-field arithmetic on representatives 0..P-1, written so that no     *)
(* intermediate value leaves the 32-bit integer range.                      *)
(***************************************************************************)
FAdd(a, b) == IF a >= P - b THEN a - (P - b) ELSE a + b
FNeg(a) == IF a = 0 THEN 0 ELSE P - a
FSub(a, b) == FAdd(a, FNeg(b))
RECURSIVE FMulSlow(_, _)
FMulSlow(a, b) ==
    IF b = 0 THEN 0
    ELSE LET h == FMulSlow(a, b \div 2)
             d == FAdd(h, h)
         IN IF b % 2 = 1 THEN FAdd(d, a) ELSE d
\* operands above P/2 are multiplied as the negatives of P - a, P - b, which
\* keeps the products of the values the constraints meet in range
FMul(a, b) ==
    IF a = 0 \/ b = 0 THEN 0
    ELSE IF a = 1 THEN b
    ELSE IF b = 1 THEN a
    ELSE LET na == IF a > P \div 2 THEN P - a ELSE a
             nb == IF b > P \div 2 THEN P - b ELSE b
             m == IF (na < 32768 /\ nb < 65536) \/ (nb < 32768 /\ na < 65536)
                  THEN (na * nb) % P
                  ELSE FMulSlow(na, nb)
         IN IF (a > P \div 2) # (b > P \div 2) THEN FNeg(m) ELSE m
F_ZERO == 0
F_ONE == 1
F_TWO == 2

(***************************************************************************)
(* 64-bit words as sets of one-bit positions.                              *)
(***************************************************************************)
XorW(a, b) == (a \ b) \cup (b \ a)
RotL(a, r) == {(z + r) % 64 : z \in a}
AndNotW(b, c) == c \ b
ByteBit(byte, b) == (byte \div Pow2(b)) % 2
\* u64::from_le_bytes over the 8 bytes chunk[0..8) (a 1-based sequence)
U64FromLeBytes(chunk) ==
    {z \in 0..63 : ByteBit(chunk[(z \div 8) + 1], z % 8) = 1}
RECURSIVE BitsValue(_, _, _)
\* value of the n bits of w starting at bit position base, little-endian
BitsValue(w, base, n) ==
    IF n = 0 THEN 0
    ELSE (IF base \in w THEN 1 ELSE 0) + 2 * BitsValue(w, base + 1, n - 1)
\* u64::to_le_bytes
U64ToLeBytes(w) == [j \in 1..8 |-> BitsValue(w, 8 * (j - 1), 8)]

(***************************************************************************)
(* Keccak-f[1600], one round at a time.  Lane (x, y) is stored at index    *)
(* x + 5*y.                                                                *)
(***************************************************************************)
RC == << {0}, {1,7,15}, {1,3,7,15,63}, {15,31,63}, {0,1,3,7,15}, {0,31},
         {0,7,15,31,63}, {0,3,15,63}, {1,3,7}, {3,7}, {0,3,15,31}, {1,3,31},
         {0,1,3,7,15,31}, {0,1,3,7,63}, {0,3,7,15,63}, {0,1,15,63}, {1,15,63},
         {7,63}, {1,3,15}, {1,3,31,63}, {0,7,15,31,63}, {7,15,63}, {0,31},
         {3,15,31,63} >>
\* rotation offset of lane (x, y) at position x*5 + y + 1
RHO == << 0, 36, 3, 41, 18,   1, 44, 10, 45, 2,   62, 6, 43, 15, 61,
          28, 55, 25, 21, 56,   27, 20, 39, 8, 14 >>

Materialize(f) == IF f = f THEN f ELSE f
ZeroState == [i \in Lanes |-> {}]
\* C[x] = xor of column x
ThetaC(A) ==
    Materialize([x \in 0..4 |->
        XorW(XorW(XorW(XorW(A[x], A[x + 5]), A[x + 10]), A[x + 15]), A[x + 20])])
\* C'[x] = C[x] xor C[x-1] xor rot(C[x+1], 1)
ThetaCPrime(C) ==
    Materialize([x \in 0..4 |->
        XorW(XorW(C[x], C[(x + 4) % 5]), RotL(C[(x + 1) % 5], 1))])
\* A'[x,y] = A[x,y] xor C[x] xor C'[x]
ThetaAPrime(A, C, Cp) ==
    Materialize([i \in Lanes |-> XorW(XorW(A[i], C[i % 5]), Cp[i % 5])])
\* B[y, 2x+3y] = rot(A'[x,y], r[x,y])
RhoPi(Ap) ==
    Materialize([i \in Lanes |->
        LET x == i % 5
            y == i \div 5
            sx == (x + 3 * y) % 5
            sy == x
        IN RotL(Ap[sx + 5 * sy], RHO[sx * 5 + sy + 1])])
\* A''[x,y] = B[x,y] xor (not B[x+1,y] and B[x+2,y])
Chi(B) ==
    Materialize([i \in Lanes |->
        LET x == i % 5
            y == i \div 5
        IN XorW(B[i], AndNotW(B[((x + 1) % 5) + 5 * y], B[((x + 2) % 5) + 5 * y]))])
\* A'''[0,0] = A''[0,0] xor RC[round]
Iota(App, round) ==
    Materialize([i \in Lanes |-> IF i = 0 THEN XorW(App[0], RC[round + 1]) ELSE App[i]])
KeccakRound(A, round) ==
    LET C == ThetaC(A)
        Cp == ThetaCPrime(C)
        Ap == ThetaAPrime(A, C, Cp)
    IN Iota(Chi(RhoPi(Ap)), round)

(***************************************************************************)
(* State.                                                                  *)
(***************************************************************************)
VARIABLES
    pc,             \* position in generate_keccak_input / the generator / the prover
    input_size,     \* argument of generate_trace_and_public_digest_limbs
    msg,            \* message bytes (1-based sequence of 0..255)
    hasher,         \* sha3::Keccak256 state: [state, pos, round, final]
    digest,         \* reference digest returned by generate_keccak_input
    padded,         \* buffer of keccak_pad10star1
    num_blocks,
    state,          \* sponge state of the absorption simulation (25 lanes)
    round,          \* round counter inside KeccakF.permute_mut
    perm_inputs,
    block_bits,
    perm_outputs,
    computed_digest,
    current_state,  \* state of the permutation row builder
    keccak_trace,   \* rows returned by p3_keccak_air::generate_trace_rows
    height,
    values,         \* the full trace, one record per row, rows 0..height-1
    hash_end_row,
    perm_idx,       \* loop index of the block_bits / out_bits loops
    digest_limbs,
    result,         \* "none", "Ok" or the error message
    eval_row,       \* row the constraint evaluator is positioned on
    violated,       \* constraints found non-zero so far: set of <<name, row>>
    adv,            \* flag columns under the evaluator alone (any assignment)
    tamper,         \* change made to the generator's output before it is proved
    invocations     \* outcomes of the earlier invocations of the generator

inputVars == << input_size, msg >>
hashVars == << hasher, digest >>
padVars == << padded, num_blocks >>
absorbVars == << state, round, perm_inputs, block_bits, perm_outputs, computed_digest >>
rowVars == << current_state, keccak_trace, height >>
fillVars == << values, hash_end_row, perm_idx >>
outVars == << digest_limbs, result >>
evalVars == << eval_row, violated >>
harnessVars == << tamper, invocations >>
vars == << pc, inputVars, hashVars, padVars, absorbVars, rowVars, fillVars, outVars,
           evalVars, adv, harnessVars >>

(***************************************************************************)
(* Message source: StdRng::seed_from_u64(input_size).fill_bytes produces   *)
(* a byte stream that is a function of the seed alone.                     *)
(***************************************************************************)
RngByte(seed, i) == ((seed + 1) * 167 + (i + 1) * 241 + (seed + 1) * (i + 1) * 13) % 256
\* variant: the generator is seeded from what the last call left behind
RngFillBytes_mut(seed, n) == [i \in 1..n |-> RngByte(seed + Len(digest), i - 1)]
RngFillBytes(seed, n) == [i \in 1..n |-> RngByte(seed, i - 1)]

(***************************************************************************)
(* utils::generate_keccak_input: message from the seeded generator, digest *)
(* from sha3::Keccak256 (update, then finalize).                           *)
(***************************************************************************)
\* xor a 136-byte block (1-based sequence) into the first 17 lanes
Sha3XorIn(st, block) ==
    [lane \in Lanes |->
        IF lane < RATE_BYTES \div 8
        THEN XorW(st[lane], U64FromLeBytes(SubSeq(block, 8 * lane + 1, 8 * lane + 8)))
        ELSE st[lane]]
\* the last, partial block with the Keccak pad: 0x01 after the data and
\* 0x80 or-ed into the last byte of the block
Sha3LastBlock(rest) ==
    [i \in 1..RATE_BYTES |->
        LET base == IF i <= Len(rest) THEN rest[i]
                    ELSE IF i = Len(rest) + 1 THEN 1 ELSE 0
        IN IF i = RATE_BYTES THEN base + 128 ELSE base]
\* first 32 bytes of the state
Sha3Squeeze(st) ==
    U64ToLeBytes(st[0]) \o U64ToLeBytes(st[1]) \o U64ToLeBytes(st[2]) \o U64ToLeBytes(st[3])

HasherInit == [state |-> ZeroState, pos |-> 0, round |-> 0, final |-> FALSE]

\* hasher.update: absorb the next full block of the message
HasherUpdate ==
    /\ pc = "hasher_update"
    /\ Len(msg) - hasher.pos >= RATE_BYTES
    /\ hasher' = [hasher EXCEPT
                    !.state = Sha3XorIn(hasher.state,
                                  SubSeq(msg, hasher.pos + 1, hasher.pos + RATE_BYTES)),
                    !.pos = hasher.pos + RATE_BYTES,
                    !.round = 0]
    /\ pc' = "hasher_permute"
    /\ UNCHANGED << inputVars, digest, padVars, absorbVars, rowVars, fillVars, outVars,
                    evalVars, adv, harnessVars >>

\* hasher.finalize: pad and absorb what is left of the message
HasherFinalize ==
    /\ pc = "hasher_update"
    /\ Len(msg) - hasher.pos < RATE_BYTES
    /\ hasher' = [hasher EXCEPT
                    !.state = Sha3XorIn(hasher.state,
                                  Sha3LastBlock(SubSeq(msg, hasher.pos + 1, Len(msg)))),
                    !.pos = Len(msg),
                    !.round = 0,
                    !.final = TRUE]
    /\ pc' = "hasher_permute"
    /\ UNCHANGED << inputVars, digest, padVars, absorbVars, rowVars, fillVars, outVars,
                    evalVars, adv, harnessVars >>

\* one round of the hasher's permutation; the last round of the last block
\* returns (message, digest) to the generator (trace.rs:65), which hands the
\* message to keccak_pad10star1 (trace.rs:71)
HasherRound ==
    /\ pc = "hasher_permute"
    /\ LET st == KeccakRound(hasher.state, hasher.round)
           last == hasher.round = NUM_ROUNDS_MIN_1
       IN /\ hasher' = [hasher EXCEPT !.state = st, !.round = hasher.round + 1]
          /\ pc' = IF ~last THEN "hasher_permute"
                   ELSE IF hasher.final THEN "pad_suffix" ELSE "hasher_update"
          /\ digest' = IF last /\ hasher.final THEN Sha3Squeeze(st) ELSE digest
          /\ padded' = IF last /\ hasher.final THEN msg ELSE padded
    /\ UNCHANGED << inputVars, num_blocks, absorbVars, rowVars, fillVars, outVars,
                    evalVars, adv, harnessVars >>

(***************************************************************************)
(* keccak_pad10star1 (trace.rs:16-24), one push per step.                  *)
(***************************************************************************)
\* variant: the SHA3 domain byte 0x06 is pushed in place of 0x01
PadPushSuffix_mut ==
    /\ pc = "pad_suffix"
    /\ padded' = Append(padded, 6)
    /\ pc' = "pad_zeros"
    /\ UNCHANGED << inputVars, hashVars, num_blocks, absorbVars, rowVars, fillVars,
                    outVars, evalVars, adv, harnessVars >>
\* trace.rs:18
PadPushSuffix ==
    /\ pc = "pad_suffix"
    /\ padded' = Append(padded, 1)
    /\ pc' = "pad_zeros"
    /\ UNCHANGED << inputVars, hashVars, num_blocks, absorbVars, rowVars, fillVars,
                    outVars, evalVars, adv, harnessVars >>

\* variant: no zero byte is pushed
PadLoopCond_never(len) == FALSE
\* variant: the loop stops one byte early
PadLoopCond_mut(len) == (len % RATE_BYTES) # (RATE_BYTES - 2)
PadLoopCond(len) == (len % RATE_BYTES) # (RATE_BYTES - 1)

PadPushZero ==
    /\ pc = "pad_zeros"
    /\ PadLoopCond(Len(padded))
    /\ padded' = Append(padded, 0)
    /\ UNCHANGED << pc, inputVars, hashVars, num_blocks, absorbVars, rowVars, fillVars,
                    outVars, evalVars, adv, harnessVars >>

PadPushFinal ==
    /\ pc = "pad_zeros"
    /\ ~PadLoopCond(Len(padded))
    /\ padded' = Append(padded, 128)
    /\ pc' = "pad_done"
    /\ UNCHANGED << inputVars, hashVars, num_blocks, absorbVars, rowVars, fillVars,
                    outVars, evalVars, adv, harnessVars >>

\* trace.rs:72-81: the rate check, num_blocks, the empty vectors, the zero state
CheckPaddedLen ==
    /\ pc = "pad_done"
    /\ IF Len(padded) % RATE_BYTES # 0
       THEN /\ result' = "padding produced non-multiple of rate"
            /\ pc' = "done"
            /\ UNCHANGED num_blocks
       ELSE /\ num_blocks' = Len(padded) \div RATE_BYTES
            /\ pc' = "absorb"
            /\ UNCHANGED result
    /\ UNCHANGED << inputVars, hashVars, padded, absorbVars, rowVars, fillVars,
                    digest_limbs, evalVars, adv, harnessVars >>

(***************************************************************************)
(* Absorption simulation (trace.rs:77-101).                                *)
(***************************************************************************)
\* variant: most significant bit of each byte first
bytes_to_rate_block_bits_mut(block) ==
    [k \in 0..(RATE_BITS - 1) |-> ByteBit(block[(k \div 8) + 1], 7 - (k % 8))]
\* trace.rs:26-35: bits[i*8 + b] = (byte >> b) & 1, block a 1-based sequence
bytes_to_rate_block_bits(block) ==
    [k \in 0..(RATE_BITS - 1) |-> ByteBit(block[(k \div 8) + 1], k % 8)]

\* variant: the rate lanes are overwritten by the block
AbsorbLanes_mut(st, block) ==
    [lane \in Lanes |->
        IF lane < RATE_BYTES \div 8
        THEN U64FromLeBytes(SubSeq(block, lane * 8 + 1, (lane + 1) * 8))
        ELSE st[lane]]
\* trace.rs:88-94: xor the 17 little-endian lanes of the block into the state
AbsorbLanes(st, block) ==
    [lane \in Lanes |->
        IF lane < RATE_BYTES \div 8
        THEN XorW(st[lane], U64FromLeBytes(SubSeq(block, lane * 8 + 1, (lane + 1) * 8)))
        ELSE st[lane]]

\* trace.rs:83-97: one iteration of the block loop up to the permutation
AbsorbBlock ==
    /\ pc = "absorb"
    /\ LET b == Len(perm_inputs)
           block == SubSeq(padded, b * RATE_BYTES + 1, (b + 1) * RATE_BYTES)
           st == AbsorbLanes(state, block)
       IN /\ state' = st
          /\ perm_inputs' = Append(perm_inputs, st)
          /\ block_bits' = Append(block_bits, bytes_to_rate_block_bits(block))
    /\ round' = 0
    /\ pc' = "permute"
    /\ UNCHANGED << inputVars, hashVars, padVars, perm_outputs, computed_digest,
                    rowVars, fillVars, outVars, evalVars, adv, harnessVars >>

\* trace.rs:99-100: KeccakF.permute_mut, one round per step; the last round
\* pushes the output and closes the loop iteration
PermuteRound ==
    /\ pc = "permute"
    /\ LET st == KeccakRound(state, round)
           last == round = NUM_ROUNDS_MIN_1
       IN /\ state' = st
          /\ round' = round + 1
          /\ perm_outputs' = IF last THEN Append(perm_outputs, st) ELSE perm_outputs
          /\ pc' = IF ~last THEN "permute"
                   ELSE IF Len(perm_outputs) + 1 < num_blocks THEN "absorb"
                   ELSE "selfcheck"
    /\ UNCHANGED << inputVars, hashVars, padVars, perm_inputs, block_bits,
                    computed_digest, rowVars, fillVars, outVars, evalVars, adv, harnessVars >>

\* smallest power of two that is >= n (usize::next_power_of_two)
RECURSIVE NextPow2From(_, _)
NextPow2From(p, n) == IF p >= n THEN p ELSE NextPow2From(2 * p, n)
next_power_of_two(n) == NextPow2From(1, n)

\* trace.rs:104-107: first 4 output lanes, little-endian
ComputedDigest(out) ==
    U64ToLeBytes(out[0]) \o U64ToLeBytes(out[1]) \o U64ToLeBytes(out[2])
        \o U64ToLeBytes(out[3])

\* variant: the digests are not compared
SelfCheck_mut ==
    /\ pc = "selfcheck"
    /\ computed_digest' = ComputedDigest(perm_outputs[Len(perm_outputs)])
    /\ pc' = "gen_rows"
    /\ height' = next_power_of_two(Len(perm_inputs) * NUM_ROUNDS)
    /\ UNCHANGED << inputVars, hashVars, padVars, state, round, perm_inputs,
                    block_bits, perm_outputs, current_state, keccak_trace, fillVars,
                    outVars, evalVars, adv, harnessVars >>
\* trace.rs:103-110: the self-check against the reference digest
SelfCheck ==
    /\ pc = "selfcheck"
    /\ computed_digest' = ComputedDigest(perm_outputs[Len(perm_outputs)])
    /\ IF computed_digest' # digest
       THEN /\ result' = "keccak sponge simulation digest mismatch"
            /\ pc' = "done"
            /\ UNCHANGED height
       ELSE /\ pc' = "gen_rows"
            /\ height' = next_power_of_two(Len(perm_inputs) * NUM_ROUNDS)
            /\ UNCHANGED result
    /\ UNCHANGED << inputVars, hashVars, padVars, state, round, perm_inputs,
                    block_bits, perm_outputs, current_state, keccak_trace, fillVars,
                    digest_limbs, evalVars, adv, harnessVars >>

(***************************************************************************)
(* p3_keccak_air::generate_trace_rows (trace.rs:114-116): one row per      *)
(* round, 24 rows per input, zero inputs up to a power-of-two height.      *)
(* Only the columns the sponge constraints read are kept:                  *)
(*   step_flags[i], c[x][z] at x*64+z, c_prime[x][z] at x*64+z,            *)
(*   a_prime[y][x][z] at (y*5+x)*64+z and                                  *)
(*   a_prime_prime_prime(y, x, limb) at (y*5+x)*4+limb.                    *)
(***************************************************************************)
WordBit(w, z) == IF z \in w THEN 1 ELSE 0
KeccakRowFor(A, rnd) ==
    LET C == ThetaC(A)
        Cp == ThetaCPrime(C)
        Ap == ThetaAPrime(A, C, Cp)
        Out == Iota(Chi(RhoPi(Ap)), rnd)
    IN [ step_flags |-> [i \in 0..(NUM_ROUNDS - 1) |-> IF i = rnd THEN 1 ELSE 0],
         c |-> [k \in 0..(5 * 64 - 1) |-> WordBit(C[k \div 64], k % 64)],
         c_prime |-> [k \in 0..(5 * 64 - 1) |-> WordBit(Cp[k \div 64], k % 64)],
         a_prime |-> [k \in 0..(STATE_BITS - 1) |-> WordBit(Ap[k \div 64], k % 64)],
         a_prime_prime_prime |->
             [k \in 0..(25 * U64_LIMBS - 1) |->
                 BitsValue(Out[k \div U64_LIMBS], BITS_PER_LIMB * (k % U64_LIMBS),
                           BITS_PER_LIMB)] ]

GenKeccakRow ==
    /\ pc = "gen_rows"
    /\ LET r == Len(keccak_trace)
           rnd == r % NUM_ROUNDS
           perm == r \div NUM_ROUNDS
           A == IF rnd # 0 THEN current_state
                ELSE IF perm < Len(perm_inputs) THEN perm_inputs[perm + 1]
                ELSE ZeroState
       IN /\ keccak_trace' = Append(keccak_trace, KeccakRowFor(A, rnd))
          /\ current_state' = KeccakRound(A, rnd)
          /\ pc' = IF r + 1 < height THEN "gen_rows" ELSE "alloc"
    /\ UNCHANGED << inputVars, hashVars, padVars, absorbVars, height, fillVars,
                    outVars, evalVars, adv, harnessVars >>

(***************************************************************************)
(* Full trace: permutation columns plus the sponge columns                 *)
(* (trace.rs:117-175).                                                     *)
(***************************************************************************)
ZeroBlockBits == [i \in 0..(RATE_BITS - 1) |-> F_ZERO]
\* variant: the matrix is not zeroed
ZeroOutBits_mut == [i \in 0..(STATE_BITS - 1) |-> F_ONE]
ZeroOutBits == [i \in 0..(STATE_BITS - 1) |-> F_ZERO]

\* trace.rs:119-127: zeroed matrix with the permutation columns copied in
AllocAndCopy ==
    /\ pc = "alloc"
    /\ values' = [r \in 0..(height - 1) |->
                    [ keccak |-> keccak_trace[r + 1],
                      hash_end |-> F_ZERO,
                      seen_end |-> F_ZERO,
                      active |-> F_ZERO,
                      block_bits |-> ZeroBlockBits,
                      out_bits |-> ZeroOutBits ]]
    /\ pc' = "hash_end_row"
    /\ UNCHANGED << inputVars, hashVars, padVars, absorbVars, rowVars, hash_end_row,
                    perm_idx, outVars, evalVars, adv, harnessVars >>

\* variant: the final row of the permutation after the last real one
HashEndRowOf_mut(n_outputs) == ((n_outputs + 1) * NUM_ROUNDS) - 1
\* trace.rs:135-138
HashEndRowOf(n_outputs) == (n_outputs * NUM_ROUNDS) - 1
CheckHashEndRow ==
    /\ pc = "hash_end_row"
    /\ hash_end_row' = HashEndRowOf(Len(perm_outputs))
    /\ IF hash_end_row' >= height
       THEN /\ result' = "keccak trace too short for expected hash_end row"
            /\ pc' = "done"
       ELSE /\ pc' = "fill_flags"
            /\ UNCHANGED result
    /\ UNCHANGED << inputVars, hashVars, padVars, absorbVars, rowVars, values, perm_idx,
                    digest_limbs, evalVars, adv, harnessVars >>

\* variants of the flag columns: the comparison with hash_end_row off by one
ActiveAt_mut(r, he_row) == IF r < he_row THEN F_ONE ELSE F_ZERO
SeenEndAt_mut(r, he_row) == IF r < he_row THEN F_ZERO ELSE F_ONE
HashEndAt_mut(r, he_row) == IF r >= he_row THEN F_ONE ELSE F_ZERO
\* trace.rs:143, 149, 151
ActiveAt(r, he_row) == IF r <= he_row THEN F_ONE ELSE F_ZERO
SeenEndAt(r, he_row) == IF r <= he_row THEN F_ZERO ELSE F_ONE
HashEndAt(r, he_row) == IF r = he_row THEN F_ONE ELSE F_ZERO

\* trace.rs:142-152: the flag loop over all rows
FillFlags ==
    /\ pc = "fill_flags"
    /\ values' = [r \in 0..(height - 1) |->
                    [values[r] EXCEPT !.active = ActiveAt(r, hash_end_row),
                                      !.seen_end = SeenEndAt(r, hash_end_row),
                                      !.hash_end = HashEndAt(r, hash_end_row)]]
    /\ perm_idx' = 0
    /\ pc' = "fill_block_bits"
    /\ UNCHANGED << inputVars, hashVars, padVars, absorbVars, rowVars, hash_end_row,
                    outVars, evalVars, adv, harnessVars >>

Min(a, b) == IF a <= b THEN a ELSE b
BitToField(bit) == IF bit = 1 THEN F_ONE ELSE F_ZERO

\* trace.rs:155-163: one iteration of the block_bits loop
FillBlockBits ==
    /\ pc = "fill_block_bits"
    /\ perm_idx < Len(block_bits)
    /\ LET bits == block_bits[perm_idx + 1]
           start_row == perm_idx * NUM_ROUNDS
           end_row == Min((perm_idx + 1) * NUM_ROUNDS, height)
           cols == [i \in 0..(RATE_BITS - 1) |-> BitToField(bits[i])]
       IN values' = [r \in 0..(height - 1) |->
                       IF r >= start_row /\ r < end_row
                       THEN [values[r] EXCEPT !.block_bits = cols]
                       ELSE values[r]]
    /\ perm_idx' = perm_idx + 1
    /\ UNCHANGED << pc, inputVars, hashVars, padVars, absorbVars, rowVars,
                    hash_end_row, outVars, evalVars, adv, harnessVars >>

FillBlockBitsEnd ==
    /\ pc = "fill_block_bits"
    /\ perm_idx >= Len(block_bits)
    /\ perm_idx' = 0
    /\ pc' = "fill_out_bits"
    /\ UNCHANGED << inputVars, hashVars, padVars, absorbVars, rowVars, values,
                    hash_end_row, outVars, evalVars, adv, harnessVars >>

\* variant: most significant bit of each lane first
state_to_bits_le_mut(st) ==
    [k \in 0..(STATE_BITS - 1) |-> WordBit(st[k \div 64], 63 - (k % 64))]
\* trace.rs:37-46: bits[lane*64 + z] = (state[lane] >> z) & 1
state_to_bits_le(st) ==
    [k \in 0..(STATE_BITS - 1) |-> WordBit(st[k \div 64], k % 64)]

\* trace.rs:166-175: one iteration of the out_bits loop
FillOutBits ==
    /\ pc = "fill_out_bits"
    /\ perm_idx < Len(perm_outputs)
    /\ (perm_idx + 1) * NUM_ROUNDS - 1 < height
    /\ LET final_row == (perm_idx + 1) * NUM_ROUNDS - 1
           bits == state_to_bits_le(perm_outputs[perm_idx + 1])
           cols == [i \in 0..(STATE_BITS - 1) |-> BitToField(bits[i])]
       IN values' = [values EXCEPT ![final_row].out_bits = cols]
    /\ perm_idx' = perm_idx + 1
    /\ UNCHANGED << pc, inputVars, hashVars, padVars, absorbVars, rowVars,
                    hash_end_row, outVars, evalVars, adv, harnessVars >>

\* variant: three bytes per limb
digest_to_u16_limbs_le_mut(d) ==
    [i \in 0..(DIGEST_LIMBS - 1) |->
        d[2 * i + 1] + 256 * d[2 * i + 2] + 65536 * d[((2 * i + 2) % 32) + 1]]
\* trace.rs:48-54: out[i] = u16::from_le_bytes([digest[2i], digest[2i+1]])
digest_to_u16_limbs_le(d) ==
    [i \in 0..(DIGEST_LIMBS - 1) |-> d[2 * i + 1] + 256 * d[2 * i + 2]]

\* trace.rs:168-170 (loop exit or break) and 177-180: the result
Finish ==
    /\ pc = "fill_out_bits"
    /\ \/ perm_idx >= Len(perm_outputs)
       \/ (perm_idx + 1) * NUM_ROUNDS - 1 >= height
    /\ digest_limbs' = digest_to_u16_limbs_le(digest)
    /\ result' = "Ok"
    /\ eval_row' = 0
    /\ pc' = "prove"
    /\ UNCHANGED << inputVars, hashVars, padVars, absorbVars, rowVars, fillVars,
                    violated, adv, harnessVars >>

(***************************************************************************)
(* KeccakSpongeAir::eval (sponge_air.rs:115-335) on one (local, next) row  *)
(* window.  when(c).assert_zero(x) is the constraint c * x = 0.            *)
(***************************************************************************)
When(cond, x) == FMul(cond, x)
\* sponge_air.rs:81-84
assert_bool_like(x) == FMul(x, FSub(x, F_ONE))
\* sponge_air.rs:86-99
xor2(two, a, b) == FSub(FAdd(a, b), FMul(FMul(two, a), b))
\* sponge_air.rs:101-113
xor3(two, a, b, c) == xor2(two, xor2(two, a, b), c)

\* KeccakCols field access
a_prime(k, y, x, z) == k.a_prime[(y * 5 + x) * 64 + z]
c_col(k, x, z) == k.c[x * 64 + z]
c_prime(k, x, z) == k.c_prime[x * 64 + z]
a_prime_prime_prime(k, y, x, limb) == k.a_prime_prime_prime[(y * 5 + x) * U64_LIMBS + limb]

\* variant: the flags are not constrained to be boolean
FlagBoolOk_mut(local) == TRUE
\* sponge_air.rs:143-145
FlagBoolOk(local) ==
    /\ assert_bool_like(local.hash_end) = 0
    /\ assert_bool_like(local.seen_end) = 0
    /\ assert_bool_like(local.active) = 0
\* variant: the first row's active flag is not constrained
FirstRowOk_mut(local, is_first_row) == When(is_first_row, local.seen_end) = 0
\* sponge_air.rs:148-149
FirstRowOk(local, is_first_row) ==
    /\ When(is_first_row, local.seen_end) = 0
    /\ When(is_first_row, FSub(local.active, F_ONE)) = 0
\* variant: the transition of active is not constrained
FlagTransitionOk_mut(local, next, is_transition) ==
    When(is_transition,
         FSub(next.seen_end, FAdd(local.seen_end, local.hash_end))) = 0
\* sponge_air.rs:154-159
FlagTransitionOk(local, next, is_transition) ==
    /\ When(is_transition,
            FSub(next.seen_end, FAdd(local.seen_end, local.hash_end))) = 0
    /\ When(is_transition,
            FSub(next.active, FSub(local.active, local.hash_end))) = 0
\* variant: hash_end is not tied to active
HashEndActiveOk_mut(local) == TRUE
\* sponge_air.rs:162-164
HashEndActiveOk(local) ==
    When(local.hash_end, FMul(FSub(F_ONE, local.active), local.hash_end)) = 0
\* variant: hash_end is not tied to the final-step flag
HashEndFinalStepOk_mut(local, local_final_step) == TRUE
\* sponge_air.rs:167-170
HashEndFinalStepOk(local, local_final_step) ==
    When(local.hash_end, FSub(F_ONE, local_final_step)) = 0
\* sponge_air.rs:173
LastRowOk(local, is_last_row) ==
    When(is_last_row, FSub(local.seen_end, F_ONE)) = 0

\* sponge_air.rs:200-209: sum of bit_i * 2^i over the 16 bits from base_bit
RECURSIVE LimbAcc(_, _, _, _)
LimbAcc(bits, base_bit, i, pow2) ==
    IF i = BITS_PER_LIMB THEN F_ZERO
    ELSE FAdd(FMul(bits[base_bit + i], pow2),
              LimbAcc(bits, base_bit, i + 1, FAdd(pow2, pow2)))
OutBitsBase(lane, limb) == (lane * 64) + (limb * 16)
\* variant: out_bits are forced to zero on non-final rows only while active
OutBitsOk_mut(local, local_final_step) ==
    LET not_final == FMul(FSub(F_ONE, local_final_step), local.active)
        gate == FMul(local_final_step, local.active)
    IN /\ \A i \in 0..(STATE_BITS - 1) : When(not_final, local.out_bits[i]) = 0
       /\ \A lane \in 0..24 : \A limb \in 0..(U64_LIMBS - 1) :
            LET limb_val == a_prime_prime_prime(local.keccak, lane \div 5, lane % 5, limb)
                base_bit == (lane * 64) + (limb * 16)
            IN /\ \A i \in 0..(BITS_PER_LIMB - 1) :
                    When(gate, assert_bool_like(local.out_bits[base_bit + i])) = 0
               /\ When(gate, FSub(LimbAcc(local.out_bits, base_bit, 0, F_ONE),
                                  limb_val)) = 0
\* sponge_air.rs:177-213
OutBitsOk(local, local_final_step) ==
    LET not_final == FSub(F_ONE, local_final_step)
        gate == FMul(local_final_step, local.active)
    IN /\ \A i \in 0..(STATE_BITS - 1) : When(not_final, local.out_bits[i]) = 0
       /\ \A lane \in 0..24 : \A limb \in 0..(U64_LIMBS - 1) :
            LET x == lane % 5
                y == lane \div 5
                limb_val == a_prime_prime_prime(local.keccak, y, x, limb)
                base_bit == OutBitsBase(lane, limb)
            IN /\ \A i \in 0..(BITS_PER_LIMB - 1) :
                    When(gate, assert_bool_like(local.out_bits[base_bit + i])) = 0
               /\ When(gate, FSub(LimbAcc(local.out_bits, base_bit, 0, F_ONE),
                                  limb_val)) = 0
\* variant: the limbs of a lane are read most significant first
DigestOk_be(local, public_values) ==
    \A limb_idx \in 0..(DIGEST_LIMBS - 1) :
        When(local.hash_end,
             FSub(a_prime_prime_prime(local.keccak, (limb_idx \div U64_LIMBS) \div 5,
                                      (limb_idx \div U64_LIMBS) % 5,
                                      (U64_LIMBS - 1) - (limb_idx % U64_LIMBS)),
                  public_values[limb_idx])) = 0
\* variant: the last limb is not compared
DigestOk_mut(local, public_values) ==
    \A limb_idx \in 0..(DIGEST_LIMBS - 2) :
        When(local.hash_end,
             FSub(a_prime_prime_prime(local.keccak, (limb_idx \div U64_LIMBS) \div 5,
                                      (limb_idx \div U64_LIMBS) % 5,
                                      limb_idx % U64_LIMBS),
                  public_values[limb_idx])) = 0
\* sponge_air.rs:216-232
DigestOk(local, public_values) ==
    \A limb_idx \in 0..(DIGEST_LIMBS - 1) :
        LET u64_index == limb_idx \div U64_LIMBS
            limb_in_u64 == limb_idx % U64_LIMBS
            y == u64_index \div 5
            x == u64_index % 5
            out_limb == a_prime_prime_prime(local.keccak, y, x, limb_in_u64)
        IN When(local.hash_end, FSub(out_limb, public_values[limb_idx])) = 0
\* sponge_air.rs:243-248 and 282-287: A = A' xor C xor C'
input_bit(k, x, y, z) ==
    xor3(F_TWO, a_prime(k, y, x, z), c_col(k, x, z), c_prime(k, x, z))
\* variant: only the rate bits of the first input are constrained
ZeroIvOk_mut(local, is_first_row) ==
    \A bit_idx \in 0..(RATE_BITS - 1) :
        When(is_first_row,
             FSub(input_bit(local.keccak, (bit_idx \div 64) % 5, (bit_idx \div 64) \div 5,
                            bit_idx % 64),
                  local.block_bits[bit_idx])) = 0
\* sponge_air.rs:240-267
ZeroIvOk(local, is_first_row) ==
    \A bit_idx \in 0..(STATE_BITS - 1) :
        LET lane == bit_idx \div 64
            z == bit_idx % 64
            x == lane % 5
            y == lane \div 5
            expected == IF bit_idx < RATE_BITS THEN local.block_bits[bit_idx]
                        ELSE F_ZERO
        IN When(is_first_row, FSub(input_bit(local.keccak, x, y, z), expected)) = 0
\* variant: the gate does not read the next row's active flag
BoundaryGate_mut(local, next) ==
    FMul(local.keccak.step_flags[NUM_ROUNDS_MIN_1], next.keccak.step_flags[0])
\* sponge_air.rs:272-274
BoundaryGate(local, next) ==
    FMul(FMul(local.keccak.step_flags[NUM_ROUNDS_MIN_1], next.keccak.step_flags[0]),
         next.active)
\* sponge_air.rs:277-308
AbsorbChainOk(local, next, is_transition) ==
    LET boundary_gate == BoundaryGate(local, next)
    IN \A bit_idx \in 0..(STATE_BITS - 1) :
        LET lane == bit_idx \div 64
            z == bit_idx % 64
            x == lane % 5
            y == lane \div 5
            rhs == IF bit_idx < RATE_BITS
                   THEN xor2(F_TWO, local.out_bits[bit_idx], next.block_bits[bit_idx])
                   ELSE local.out_bits[bit_idx]
        IN When(is_transition,
                When(boundary_gate, FSub(input_bit(next.keccak, x, y, z), rhs))) = 0
\* sponge_air.rs:311-320
BlockBitsBoolOk(local) ==
    \A i \in 0..(RATE_BITS - 1) :
        When(local.keccak.step_flags[0], assert_bool_like(local.block_bits[i])) = 0
\* variant: block_bits may change from row to row
BlockBitsStableOk_mut(local, next, is_transition, local_final_step) == TRUE
\* sponge_air.rs:323-333
BlockBitsStableOk(local, next, is_transition, local_final_step) ==
    LET not_final_step == FSub(F_ONE, local_final_step)
    IN \A i \in 0..(RATE_BITS - 1) :
        When(is_transition,
             When(not_final_step, FSub(local.block_bits[i], next.block_bits[i]))) = 0

\* the names of the flag constraints (sponge_air.rs:142-173) that are non-zero
\* on this window
EvalFlags(local, next, is_first_row, is_last_row, is_transition, local_final_step) ==
    (IF FlagBoolOk(local) THEN {} ELSE {"flag_bool"})
    \cup (IF FirstRowOk(local, is_first_row) THEN {} ELSE {"first_row"})
    \cup (IF FlagTransitionOk(local, next, is_transition) THEN {}
          ELSE {"flag_transition"})
    \cup (IF HashEndActiveOk(local) THEN {} ELSE {"hash_end_active"})
    \cup (IF HashEndFinalStepOk(local, local_final_step) THEN {}
          ELSE {"hash_end_final_step"})
    \cup (IF LastRowOk(local, is_last_row) THEN {} ELSE {"last_row"})

\* the names of the sponge constraints that are non-zero on this window
Eval(local, next, is_first_row, is_last_row, is_transition, public_values) ==
    LET local_final_step == local.keccak.step_flags[NUM_ROUNDS_MIN_1]
    IN  EvalFlags(local, next, is_first_row, is_last_row, is_transition,
                  local_final_step)
        \cup (IF OutBitsOk(local, local_final_step) THEN {} ELSE {"out_bits"})
        \cup (IF DigestOk(local, public_values) THEN {} ELSE {"digest"})
        \cup (IF ZeroIvOk(local, is_first_row) THEN {} ELSE {"zero_iv"})
        \cup (IF AbsorbChainOk(local, next, is_transition) THEN {}
              ELSE {"absorb_chain"})
        \cup (IF BlockBitsBoolOk(local) THEN {} ELSE {"block_bits_bool"})
        \cup (IF BlockBitsStableOk(local, next, is_transition, local_final_step)
              THEN {} ELSE {"block_bits_stable"})

ConstraintNames ==
    { "flag_bool", "first_row", "flag_transition", "hash_end_active",
      "hash_end_final_step", "last_row", "out_bits", "digest", "zero_iv",
      "absorb_chain", "block_bits_bool", "block_bits_stable" }

\* sponge_air.rs:42-47
num_public_values == DIGEST_LIMBS
Selector(cond) == IF cond THEN F_ONE ELSE F_ZERO
\* mod.rs:103-106: Val::new(limb as u32)
PublicValues(limbs) == [i \in 0..(DIGEST_LIMBS - 1) |-> limbs[i] % P]

\* the prover's pass over the trace (mod.rs:108-116): eval on every row
\* window, the window of the last row wrapping to row 0
EvalRow ==
    /\ pc = "prove"
    /\ LET local == values[eval_row]
           next == values[(eval_row + 1) % height]
           bad == Eval(local, next, Selector(eval_row = 0),
                       Selector(eval_row = height - 1),
                       Selector(eval_row # height - 1),
                       PublicValues(digest_limbs))
       IN violated' = violated \cup {<< n, eval_row >> : n \in bad}
    /\ eval_row' = eval_row + 1
    /\ pc' = IF eval_row + 1 < height THEN "prove" ELSE "done"
    /\ UNCHANGED << inputVars, hashVars, padVars, absorbVars, rowVars, fillVars,
                    outVars, adv, harnessVars >>

(***************************************************************************)
(* The flag constraints of eval on an arbitrary assignment of the columns  *)
(* hash_end, seen_end, active (and of the final-step flag they read): rows *)
(* are written one at a time and every complete window is evaluated; the   *)
(* pass stops at the first non-zero constraint.                            *)
(***************************************************************************)
AdvFieldVals == {0, 1, 2, P - 1}
AdvRows == [hash_end : AdvFieldVals, seen_end : AdvFieldVals, active : AdvFieldVals,
            final_step : {0, 1}]

AdvWriteRow ==
    /\ pc = "adv"
    /\ violated = {}
    /\ Len(adv.rows) < adv.height
    /\ eval_row >= Len(adv.rows) - 1
    /\ \E row \in AdvRows : adv' = [adv EXCEPT !.rows = Append(@, row)]
    /\ UNCHANGED << pc, inputVars, hashVars, padVars, absorbVars, rowVars, fillVars,
                    outVars, evalVars, harnessVars >>

AdvEvalRow ==
    /\ pc = "adv"
    /\ violated = {}
    /\ eval_row < adv.height
    /\ \/ eval_row + 1 < Len(adv.rows)
       \/ Len(adv.rows) = adv.height /\ eval_row = adv.height - 1
    /\ LET local == adv.rows[eval_row + 1]
           next == adv.rows[((eval_row + 1) % adv.height) + 1]
           bad == EvalFlags(local, next, Selector(eval_row = 0),
                            Selector(eval_row = adv.height - 1),
                            Selector(eval_row # adv.height - 1),
                            local.final_step)
       IN violated' = violated \cup {<< n, eval_row >> : n \in bad}
    /\ eval_row' = eval_row + 1
    /\ pc' = IF eval_row + 1 = adv.height /\ violated' = {} THEN "adv_done" ELSE "adv"
    /\ UNCHANGED << inputVars, hashVars, padVars, absorbVars, rowVars, fillVars,
                    outVars, adv, harnessVars >>

(***************************************************************************)
(* Initial states and specifications.                                      *)
(***************************************************************************)
AdvNone == [height |-> 0, rows |-> << >>]
TamperNone == [kind |-> "none", idx |-> 0, val |-> 0]
InitRest ==
    /\ tamper = TamperNone
    /\ invocations = << >>
    /\ hasher = HasherInit
    /\ digest = << >>
    /\ num_blocks = 0
    /\ state = ZeroState
    /\ round = 0
    /\ perm_inputs = << >>
    /\ block_bits = << >>
    /\ perm_outputs = << >>
    /\ computed_digest = << >>
    /\ current_state = ZeroState
    /\ keccak_trace = << >>
    /\ height = 0
    /\ values = << >>
    /\ hash_end_row = 0
    /\ perm_idx = 0
    /\ digest_limbs = << >>
    /\ result = "none"
    /\ eval_row = 0
    /\ violated = {}

\* message lengths at the edges of a rate block, and the length the tests use
EdgeResidues == {0, 1, 128, 134, 135}
InputSizes == {n \in 0..MaxInputSize : (n % RATE_BYTES) \in EdgeResidues}

\* prove(): generate_keccak_input, the generator, then the constraint pass
Init ==
    /\ InitRest
    /\ input_size \in InputSizes
    /\ msg = RngFillBytes(input_size, input_size)
    /\ padded = << >>
    /\ pc = "hasher_update"
    /\ adv = AdvNone
Next ==
    \/ HasherUpdate \/ HasherFinalize \/ HasherRound
    \/ PadPushSuffix \/ PadPushZero \/ PadPushFinal \/ CheckPaddedLen
    \/ AbsorbBlock \/ PermuteRound \/ SelfCheck
    \/ GenKeccakRow \/ AllocAndCopy \/ CheckHashEndRow
    \/ FillFlags \/ FillBlockBits \/ FillBlockBitsEnd \/ FillOutBits \/ Finish
    \/ EvalRow
Spec == Init /\ [][Next]_vars

\* the same, with the long message added to the message lengths
InitLong ==
    /\ InitRest
    /\ input_size \in InputSizes \cup {LongInputSize}
    /\ msg = RngFillBytes(input_size, input_size)
    /\ padded = << >>
    /\ pc = "hasher_update"
    /\ adv = AdvNone
SpecLong == InitLong /\ [][Next]_vars

\* keccak_pad10star1 and the rate check alone, on every message length up to
\* the bound
InitPad ==
    /\ InitRest
    /\ input_size \in 0..MaxInputSize
    /\ msg = RngFillBytes(input_size, input_size)
    /\ padded = msg
    /\ pc = "pad_suffix"
    /\ adv = AdvNone
NextPad == PadPushSuffix \/ PadPushZero \/ PadPushFinal \/ CheckPaddedLen
SpecPad == InitPad /\ [][NextPad]_vars
\* the same, the function running to its return: a step that can be taken is
\* taken (straight-line code and one loop, no other thread)
SpecPadFair == SpecPad /\ WF_vars(NextPad)

\* the flag constraints alone, on every assignment of the flag columns
InitAir ==
    /\ InitRest
    /\ input_size = 0
    /\ msg = << >>
    /\ padded = << >>
    /\ pc = "adv"
    /\ adv \in [height : 2..MaxAdvHeight, rows : {<< >>}]
NextAir == AdvWriteRow \/ AdvEvalRow
SpecAir == InitAir /\ [][NextAir]_vars

\* the first-row and flag-transition constraints alone (sponge_air.rs:148-159):
\* a row is appended when its window with the row before passes the two; a
\* cell is tried with the adversarial values and with the values the
\* transition constraints compute from the row before
ChainCandidates ==
    AdvFieldVals \cup
    (IF Len(adv.rows) = 0 THEN {}
     ELSE LET local == adv.rows[Len(adv.rows)]
          IN {FAdd(local.seen_end, local.hash_end), FSub(local.active, local.hash_end)})
AdvChainRow ==
    /\ pc = "chain"
    /\ Len(adv.rows) < adv.height
    /\ \E hash_end \in AdvFieldVals : \E seen_end \in ChainCandidates :
         \E active \in ChainCandidates :
            LET next == [hash_end |-> hash_end, seen_end |-> seen_end,
                         active |-> active, final_step |-> 0]
            IN /\ IF Len(adv.rows) = 0 THEN FirstRowOk(next, F_ONE)
                  ELSE FlagTransitionOk(adv.rows[Len(adv.rows)], next, F_ONE)
               /\ adv' = [adv EXCEPT !.rows = Append(@, next)]
    /\ UNCHANGED << pc, inputVars, hashVars, padVars, absorbVars, rowVars, fillVars,
                    outVars, evalVars, harnessVars >>
InitChain ==
    /\ InitRest
    /\ input_size = 0
    /\ msg = << >>
    /\ padded = << >>
    /\ pc = "chain"
    /\ adv = [height |-> MaxAdvHeight, rows |-> << >>]
\* the block_bits constraints alone (sponge_air.rs:311-333) on a trace whose
\* step flags cycle through the 24 rounds from row 0: a row is appended when
\* it passes the booleanity constraint and its window with the row before
\* passes the stability constraint; its block_bits are those of the row
\* before (zero on row 0) with one entry set to an adversarial value
CycleStepFlags(r) == [i \in 0..(NUM_ROUNDS - 1) |-> IF i = r % NUM_ROUNDS THEN 1 ELSE 0]
AdvBlockBitIdx == {0, RATE_BITS - 1}
AdvBlockBitsRow ==
    /\ pc = "block_bits"
    /\ Len(adv.rows) < adv.height
    /\ \E i \in AdvBlockBitIdx : \E v \in AdvFieldVals :
         LET r == Len(adv.rows)
             base == IF r = 0 THEN ZeroBlockBits ELSE adv.rows[r].block_bits
             next == [keccak |-> [step_flags |-> CycleStepFlags(r)],
                      block_bits |-> [base EXCEPT ![i] = v]]
             passes ==
                /\ BlockBitsBoolOk(next)
                /\ r > 0 => BlockBitsStableOk(adv.rows[r], next, F_ONE,
                                adv.rows[r].keccak.step_flags[NUM_ROUNDS_MIN_1])
         IN IF passes THEN adv' = [adv EXCEPT !.rows = Append(@, next)] ELSE FALSE
    /\ UNCHANGED << pc, inputVars, hashVars, padVars, absorbVars, rowVars, fillVars,
                    outVars, evalVars, harnessVars >>
InitBlockBits ==
    /\ InitRest
    /\ input_size = 0
    /\ msg = << >>
    /\ padded = << >>
    /\ pc = "block_bits"
    /\ adv = [height |-> MaxBbHeight, rows |-> << >>]
SpecBlockBits == InitBlockBits /\ [][AdvBlockBitsRow]_vars

\* the generator and prover, and the two constraints alone, side by side
InitChainAll == Init \/ InitChain
NextChainAll == Next \/ AdvChainRow
SpecChainAll == InitChainAll /\ [][NextChainAll]_vars

\* the generator and prover, and the flag constraints alone, side by side
InitAll == Init \/ InitAir
NextAll == Next \/ NextAir
SpecAll == InitAll /\ [][NextAll]_vars

(***************************************************************************)
(* A prover that does not hand over the generator's output unchanged       *)
(* (tests/sponge_zero_iv.rs): it alters the first row, or a public limb,   *)
(* or builds the trace for blocks of its own choice, and then runs the     *)
(* constraints.  tamper records what was changed.                          *)
(***************************************************************************)
\* sponge_zero_iv.rs:22-62: flip a_prime[y][x][z] of one capacity bit, row 0
TamperIv ==
    /\ pc = "prove" /\ eval_row = 0 /\ tamper = TamperNone
    /\ \E target_bit \in RATE_BITS..(STATE_BITS - 1) :
         LET original == values[0].keccak.a_prime[target_bit]
             flipped == IF original = F_ZERO THEN F_ONE ELSE F_ZERO
         IN /\ values' = [values EXCEPT ![0].keccak.a_prime[target_bit] = flipped]
            /\ tamper' = [kind |-> "iv", idx |-> target_bit, val |-> flipped]
    /\ pc' = "check"
    /\ UNCHANGED << inputVars, hashVars, padVars, absorbVars, rowVars, hash_end_row,
                    perm_idx, outVars, evalVars, adv, invocations >>

\* one public limb replaced by another 16-bit value, the trace left honest
TamperLimb ==
    /\ pc = "prove" /\ eval_row = 0 /\ tamper = TamperNone
    /\ \E i \in 0..(DIGEST_LIMBS - 1) :
         \E v \in {(digest_limbs[i] + 1) % 65536, 65535 - digest_limbs[i]} :
            /\ digest_limbs' = [digest_limbs EXCEPT ![i] = v]
            /\ tamper' = [kind |-> "limb", idx |-> i, val |-> v]
    /\ pc' = "check"
    /\ UNCHANGED << inputVars, hashVars, padVars, absorbVars, rowVars, fillVars,
                    result, evalVars, adv, invocations >>

\* sponge_zero_iv.rs:73-99: the constraints on the altered pair, row by row;
\* the first non-zero constraint ends the attempt (panic or rejected proof)
CheckRow ==
    /\ pc = "check"
    /\ LET local == values[eval_row]
           next == values[(eval_row + 1) % height]
           bad == Eval(local, next, Selector(eval_row = 0),
                       Selector(eval_row = height - 1),
                       Selector(eval_row # height - 1),
                       PublicValues(digest_limbs))
       IN /\ violated' = violated \cup {<< n, eval_row >> : n \in bad}
          /\ pc' = IF bad # {} THEN "rejected"
                   ELSE IF eval_row + 1 < height THEN "check" ELSE "accepted"
    /\ eval_row' = eval_row + 1
    /\ UNCHANGED << inputVars, hashVars, padVars, absorbVars, rowVars, fillVars,
                    outVars, adv, harnessVars >>

\* the prover absorbs blocks of its own: the last byte of the padded buffer
\* loses its final bit before the blocks are absorbed
ForgePadding ==
    /\ pc = "absorb" /\ Len(perm_inputs) = 0 /\ tamper = TamperNone
    /\ padded' = [padded EXCEPT ![Len(padded)] = padded[Len(padded)] % 128]
    /\ tamper' = [kind |-> "pad", idx |-> Len(padded), val |-> padded[Len(padded)] % 128]
    /\ UNCHANGED << pc, inputVars, hashVars, num_blocks, absorbVars, rowVars,
                    fillVars, outVars, evalVars, adv, invocations >>

\* ... and publishes the digest its own sponge produced (trace.rs:104-107
\* without the comparison of 108-110), then builds the rows as the generator
\* does (trace.rs:114-116)
ForgeDigest ==
    /\ pc = "selfcheck" /\ tamper.kind = "pad"
    /\ computed_digest' = ComputedDigest(perm_outputs[Len(perm_outputs)])
    /\ digest' = computed_digest'
    /\ height' = next_power_of_two(Len(perm_inputs) * NUM_ROUNDS)
    /\ pc' = "gen_rows"
    /\ UNCHANGED << inputVars, hasher, padVars, state, round, perm_inputs,
                    block_bits, perm_outputs, current_state, keccak_trace, fillVars,
                    outVars, evalVars, adv, harnessVars >>

\* message lengths of the altered runs: the one the test uses and a two-block one
TamperSizes == {128, 136}
InitTamper ==
    /\ InitRest
    /\ input_size \in TamperSizes
    /\ msg = RngFillBytes(input_size, input_size)
    /\ padded = << >>
    /\ pc = "hasher_update"
    /\ adv = AdvNone
\* one out_bits entry of the returned trace replaced by another field
\* element, and eval on the window of the altered row (mod.rs:108-116)
TamperOutRows == {0, NUM_ROUNDS - 2, NUM_ROUNDS_MIN_1, hash_end_row, hash_end_row + 1,
                  height - 1}
TamperOutBits == {0, 15, 16, 63, 64, RATE_BITS - 1, RATE_BITS, STATE_BITS - 1}
TamperOutBit ==
    /\ pc = "prove" /\ eval_row = 0 /\ tamper = TamperNone
    /\ \E r \in TamperOutRows : \E k \in TamperOutBits :
         \E v \in AdvFieldVals \ {values[r].out_bits[k]} :
            /\ values' = [values EXCEPT ![r].out_bits[k] = v]
            /\ tamper' = [kind |-> "out", idx |-> (r * STATE_BITS) + k, val |-> v]
            /\ eval_row' = r
            /\ LET bad == Eval(values'[r], values'[(r + 1) % height], Selector(r = 0),
                               Selector(r = height - 1), Selector(r # height - 1),
                               PublicValues(digest_limbs))
               IN violated' = {<< n, r >> : n \in bad}
    /\ pc' = "out_checked"
    /\ UNCHANGED << inputVars, hashVars, padVars, absorbVars, rowVars, hash_end_row,
                    perm_idx, outVars, adv, invocations >>

\* the generator and prover with one kind of alteration each
NextTamperOut == Next \/ TamperOutBit
SpecTamperOut == InitTamper /\ [][NextTamperOut]_vars
NextTamperIv == Next \/ TamperIv \/ CheckRow
SpecTamperIv == InitTamper /\ [][NextTamperIv]_vars
NextTamperLimb == Next \/ TamperLimb \/ CheckRow
SpecTamperLimb == InitTamper /\ [][NextTamperLimb]_vars
NextForge == Next \/ ForgePadding \/ ForgeDigest
SpecForge == InitTamper /\ [][NextForge]_vars

(***************************************************************************)
(* The height and the flag columns for every number of blocks up to the    *)
(* bound (trace.rs:75-152): what the blocks hold does not enter either, so *)
(* the permutation inputs and outputs are kept as zero states and the rows *)
(* carry the flag columns only.                                            *)
(***************************************************************************)
\* trace.rs:75-101: num_blocks permutation inputs and outputs
BlocksOnly ==
    /\ pc = "blocks"
    /\ \E n \in 1..MaxBlocks :
        /\ num_blocks' = n
        /\ perm_inputs' = [i \in 1..n |-> ZeroState]
        /\ perm_outputs' = [i \in 1..n |-> ZeroState]
    /\ pc' = "height"
    /\ UNCHANGED << inputVars, hashVars, padded, state, round, block_bits,
                    computed_digest, current_state, keccak_trace, height, fillVars,
                    outVars, evalVars, adv, harnessVars >>
\* trace.rs:114-127: the height of the permutation trace and the zeroed rows
TraceHeight ==
    /\ pc = "height"
    /\ height' = next_power_of_two(Len(perm_inputs) * NUM_ROUNDS)
    /\ values' = [r \in 0..(height' - 1) |->
                    [ keccak |-> << >>, hash_end |-> F_ZERO, seen_end |-> F_ZERO,
                      active |-> F_ZERO, block_bits |-> << >>, out_bits |-> << >> ]]
    /\ pc' = "hash_end_row"
    /\ UNCHANGED << inputVars, hashVars, padVars, state, round, perm_inputs, block_bits,
                    perm_outputs, computed_digest, current_state, keccak_trace,
                    hash_end_row, perm_idx, outVars, evalVars, adv, harnessVars >>
InitHeight ==
    /\ InitRest
    /\ input_size = 0
    /\ msg = << >>
    /\ padded = << >>
    /\ pc = "blocks"
    /\ adv = AdvNone
NextHeight == BlocksOnly \/ TraceHeight \/ CheckHashEndRow \/ FillFlags
SpecHeight == InitHeight /\ [][NextHeight]_vars

(***************************************************************************)
(* Repeated invocations of generate_trace_and_public_digest_limbs.  Every  *)
(* call starts from fresh locals (trace.rs:61-81, lib.rs:45-50); what an   *)
(* earlier call returned is kept in invocations.                           *)
(***************************************************************************)
\* the generator has returned: Ok((trace, digest_limbs)) or an error
Returned ==
    \/ pc = "prove" /\ eval_row = 0 /\ result = "Ok"
    \/ pc = "done" /\ result \notin {"Ok", "none"}
Outcome ==
    [ input_size |-> input_size, result |-> result, values |-> values,
      digest_limbs |-> digest_limbs ]
RerunSizes == {135, 136}

Reinvoke ==
    /\ Returned
    /\ Len(invocations) + 1 < MaxInvocations
    /\ invocations' = Append(invocations, Outcome)
    /\ \E n \in RerunSizes :
         /\ input_size' = n
         /\ msg' = RngFillBytes(n, n)
    /\ pc' = "hasher_update"
    /\ hasher' = HasherInit
    /\ digest' = << >>
    /\ padded' = << >>
    /\ num_blocks' = 0
    /\ state' = ZeroState
    /\ round' = 0
    /\ perm_inputs' = << >>
    /\ block_bits' = << >>
    /\ perm_outputs' = << >>
    /\ computed_digest' = << >>
    /\ current_state' = ZeroState
    /\ keccak_trace' = << >>
    /\ height' = 0
    /\ values' = << >>
    /\ hash_end_row' = 0
    /\ perm_idx' = 0
    /\ digest_limbs' = << >>
    /\ result' = "none"
    /\ UNCHANGED << evalVars, adv, tamper >>

InitRerun ==
    /\ InitRest
    /\ input_size \in RerunSizes
    /\ msg = RngFillBytes(input_size, input_size)
    /\ padded = << >>
    /\ pc = "hasher_update"
    /\ adv = AdvNone
NextRerun ==
    \/ HasherUpdate \/ HasherFinalize \/ HasherRound
    \/ PadPushSuffix \/ PadPushZero \/ PadPushFinal \/ CheckPaddedLen
    \/ AbsorbBlock \/ PermuteRound \/ SelfCheck
    \/ GenKeccakRow \/ AllocAndCopy \/ CheckHashEndRow
    \/ FillFlags \/ FillBlockBits \/ FillBlockBitsEnd \/ FillOutBits \/ Finish
    \/ Reinvoke
SpecRerun == InitRerun /\ [][NextRerun]_vars

(***************************************************************************)
(* Properties.                                                             *)
(***************************************************************************)
Rows == 0..(height - 1)
HashEndRows == {r \in Rows : values[r].hash_end = F_ONE}
RECURSIVE SumHashEnd(_)
SumHashEnd(n) == IF n = 0 THEN 0 ELSE values[n - 1].hash_end + SumHashEnd(n - 1)
GenTriple == [r \in Rows |-> << values[r].active, values[r].seen_end, values[r].hash_end >>]
AdvTriple ==
    [r \in 0..(adv.height - 1) |->
        << adv.rows[r + 1].active, adv.rows[r + 1].seen_end, adv.rows[r + 1].hash_end >>]
\* Phase A rows (1,0,0) before row k, the row (1,0,1) at k, Phase C rows (0,1,0)
\* after it, through the last row n-1
ThreePhase(t, n, k) ==
    /\ k \in 0..(n - 2)
    /\ \A r \in 0..(n - 1) :
         t[r] = IF r < k THEN << 1, 0, 0 >>
                ELSE IF r = k THEN << 1, 0, 1 >> ELSE << 0, 1, 0 >>
AdvAccepted == pc = "adv_done" /\ violated = {}

\* C1: whenever the generator returns Ok, no sponge constraint of eval is
\* non-zero on any row window of the returned trace with the returned limbs
\* as public values.
C1_OkTraceSatisfiesSponge == result = "Ok" => violated = {}
C1_Witness ==
    /\ pc = "done" /\ result = "Ok" /\ eval_row = height
    /\ num_blocks = 2 /\ violated = {}

\* C2: for every message length the generator ends with 16 limbs, limb i being
\* digest[2i] + 256*digest[2i+1] of the reference digest, and the reference
\* digest is the first 4 lanes of the last simulated permutation output.
C2_LimbsOfReferenceDigest ==
    pc = "done" =>
        /\ digest = ComputedDigest(perm_outputs[Len(perm_outputs)])
        /\ DOMAIN digest_limbs = 0..(DIGEST_LIMBS - 1)
        /\ \A i \in 0..(DIGEST_LIMBS - 1) :
             digest_limbs[i] = digest[2 * i + 1] + 256 * digest[2 * i + 2]

\* C3: a 135-byte message is padded to 136 bytes, one block.
C3_Pad135OneBlock ==
    (input_size = 135 /\ pc = "absorb") => (Len(padded) = 136 /\ num_blocks = 1)

\* C4: for each tested length the generator returns a trace, the trace passes
\* every sponge constraint, and hash_end is 1 on exactly one row.
TestedLengths == {0, 1, 135, 136, 1024, 4096}
C4_TestedLengthsAccepted ==
    (input_size \in TestedLengths /\ pc = "done") =>
        /\ result = "Ok"
        /\ violated = {}
        /\ Cardinality(HashEndRows) = 1

\* C5: the padded buffer has a length that is a positive multiple of 136, and
\* the rate check never fails.
C5_PaddedLenMultipleOfRate ==
    /\ pc \in {"pad_done", "absorb"} =>
         (Len(padded) > 0 /\ Len(padded) % RATE_BYTES = 0)
    /\ result # "padding produced non-multiple of rate"
C5_Witness == pc = "absorb" /\ input_size = 136 /\ num_blocks = 2

\* C6: in a produced trace exactly one row has hash_end = 1, the sum of the
\* column is 1, and the row is 24*num_blocks - 1.
C6_UniqueHashEndRow ==
    result = "Ok" =>
        /\ Cardinality(HashEndRows) = 1
        /\ SumHashEnd(height) = 1
        /\ HashEndRows = {NUM_ROUNDS * num_blocks - 1}
        /\ hash_end_row = NUM_ROUNDS * num_blocks - 1
C6_Witness == result = "Ok" /\ num_blocks = 2 /\ HashEndRows = {47}

\* C7: a flag assignment on which booleanity, the first-row, transition,
\* hash_end-while-active and last-row constraints all vanish has hash_end = 1
\* on exactly one row.
C7_ConstraintsForceOneHashEnd ==
    AdvAccepted =>
        Cardinality({r \in 1..adv.height : adv.rows[r].hash_end = 1}) = 1
C7_Witness == AdvAccepted /\ adv.height >= 3 /\ adv.rows[2].hash_end = 1

\* C8: the flag triple (active, seen_end, hash_end) is (1,0,0) on zero or more
\* rows, then (1,0,1) on one row, then (0,1,0) through the last row, both in
\* every assignment the flag constraints accept and in every produced trace
\* (there with the (1,0,1) row at hash_end_row).
C8_ThreePhaseFlags ==
    /\ AdvAccepted => \E k \in 0..(adv.height - 1) : ThreePhase(AdvTriple, adv.height, k)
    /\ result = "Ok" => ThreePhase(GenTriple, height, hash_end_row)
C8_Witness ==
    \/ AdvAccepted /\ adv.height = 4 /\ AdvTriple[0] = << 1, 0, 0 >>
                   /\ AdvTriple[3] = << 0, 1, 0 >>
    \/ result = "Ok" /\ pc = "done" /\ num_blocks = 1 /\ GenTriple[23] = << 1, 0, 1 >>

\* C9: in a produced trace active is 1 on the rows up to the hash_end row and
\* 0 after it, never increases, and drops on the row after hash_end.
C9_ActiveStep ==
    result = "Ok" =>
        \E he \in Rows :
            /\ HashEndRows = {he}
            /\ \A r \in Rows : values[r].active = IF r <= he THEN 1 ELSE 0
            /\ \A r \in 0..(height - 2) : values[r].active >= values[r + 1].active
            /\ he + 1 \in Rows
            /\ values[he].active = 1 /\ values[he + 1].active = 0
C9_Witness == result = "Ok" /\ num_blocks = 2 /\ values[47].active = 1 /\ values[48].active = 0

\* C10: in a produced trace seen_end is 0 on the rows up to the hash_end row
\* and 1 after it, never decreases, and is 1 on the last row.
C10_SeenEndStep ==
    result = "Ok" =>
        \E he \in Rows :
            /\ HashEndRows = {he}
            /\ \A r \in Rows : values[r].seen_end = IF r <= he THEN 0 ELSE 1
            /\ \A r \in 0..(height - 2) : values[r].seen_end <= values[r + 1].seen_end
            /\ values[height - 1].seen_end = 1
C10_Witness == result = "Ok" /\ values[23].seen_end = 0 /\ values[24].seen_end = 1

\* bit k (little-endian within each byte) of the i-th 136-byte block of padded
PaddedBlockBits(i) ==
    [k \in 0..(RATE_BITS - 1) |->
        (padded[i * RATE_BYTES + (k \div 8) + 1] \div Pow2(k % 8)) % 2]
\* bit k of the 25 lanes of a state, lane by lane, least significant bit first
LaneBits(st) ==
    [k \in 0..(STATE_BITS - 1) |-> IF (k % 64) \in st[k \div 64] THEN 1 ELSE 0]

\* C11: in a produced trace the block_bits of rows 24*i .. 24*i+23 are the
\* little-endian bits of the i-th padded block for every real block i, so they
\* are equal inside a block and differ only across a permutation boundary; the
\* rows after the last real block keep block_bits zero.
C11_BlockBitsPerBlock ==
    result = "Ok" =>
        /\ \A i \in 0..(num_blocks - 1) :
             LET bits == PaddedBlockBits(i)
             IN \A r \in (NUM_ROUNDS * i)..(NUM_ROUNDS * (i + 1) - 1) :
                  r \in Rows /\ values[r].block_bits = bits
        /\ \A r \in Rows :
             /\ r >= NUM_ROUNDS * num_blocks =>
                  values[r].block_bits = [k \in 0..(RATE_BITS - 1) |-> 0]
             /\ (r + 1 \in Rows /\ values[r].block_bits # values[r + 1].block_bits)
                  => (r + 1) % NUM_ROUNDS = 0
C11_Witness ==
    /\ result = "Ok" /\ num_blocks = 2
    /\ values[23].block_bits # values[24].block_bits
    /\ values[24].block_bits = values[47].block_bits

\* C12: in a produced trace out_bits is zero on every row except the rows
\* 24*(i+1)-1 of the real permutations i < num_blocks, where it is the
\* little-endian bits of the 25 output lanes of permutation i; the rows of
\* the padding tail, final-round rows included, are zero.
C12_OutBitsOnlyOnRealFinalRows ==
    result = "Ok" =>
        \A r \in Rows :
            values[r].out_bits =
                IF (r + 1) % NUM_ROUNDS = 0 /\ (r + 1) \div NUM_ROUNDS <= num_blocks
                THEN LaneBits(perm_outputs[(r + 1) \div NUM_ROUNDS])
                ELSE [k \in 0..(STATE_BITS - 1) |-> 0]
C12_Witness ==
    /\ result = "Ok" /\ num_blocks = 3 /\ height = 128
    /\ values[71].out_bits = LaneBits(perm_outputs[3])
    /\ \E k \in 0..(STATE_BITS - 1) : values[71].out_bits[k] = 1
    /\ values[95].keccak.step_flags[NUM_ROUNDS_MIN_1] = 1
    /\ \A k \in 0..(STATE_BITS - 1) : values[95].out_bits[k] = 0

\* C13: an honest trace whose first-row a_prime entry of one capacity bit
\* (index >= 1088) is flipped has the zero-IV constraint non-zero on row 0
\* and is never accepted.
C13_TamperedIvRejected ==
    tamper.kind = "iv" =>
        /\ pc \in {"check", "rejected"}
        /\ pc = "check" => eval_row = 0
        /\ pc = "rejected" => (eval_row = 1 /\ << "zero_iv", 0 >> \in violated)
C13_Witness ==
    /\ tamper.kind = "iv" /\ tamper.idx = STATE_BITS - 1 /\ pc = "rejected"
    /\ input_size = 128

\* C14: an honest trace with one public limb replaced by a different value
\* has the digest check non-zero on the hash_end row, on no other row, and
\* is rejected there.
C14_TamperedLimbRejected ==
    tamper.kind = "limb" =>
        /\ \A r \in Rows :
             DigestOk(values[r], PublicValues(digest_limbs)) <=> r # hash_end_row
        /\ pc # "accepted"
        /\ pc = "rejected" => violated = {<< "digest", hash_end_row >>}
        /\ pc = "check" => (violated = {} /\ eval_row <= hash_end_row)
C14_Witness ==
    /\ tamper.kind = "limb" /\ tamper.idx = DIGEST_LIMBS - 1 /\ pc = "rejected"
    /\ num_blocks = 2 /\ eval_row = 48

\* the bytes the absorbed blocks of the trace declare: byte j of block i from
\* the block_bits of the first row of permutation i
TraceByte(i, j) ==
    LET b == values[NUM_ROUNDS * i].block_bits
    IN b[8 * j] + 2 * b[8 * j + 1] + 4 * b[8 * j + 2] + 8 * b[8 * j + 3]
       + 16 * b[8 * j + 4] + 32 * b[8 * j + 5] + 64 * b[8 * j + 6] + 128 * b[8 * j + 7]
TraceBytes ==
    [n \in 1..(((hash_end_row + 1) \div NUM_ROUNDS) * RATE_BYTES) |->
        TraceByte((n - 1) \div RATE_BYTES, (n - 1) % RATE_BYTES)]
\* p is a byte message of some length n followed by 0x01, zeros, 0x80 (0x81
\* when one byte is free), the padding ending with the block it starts in
Pad10Star1Padded(p) ==
    /\ Len(p) > 0 /\ Len(p) % RATE_BYTES = 0
    /\ \E n \in (Len(p) - RATE_BYTES)..(Len(p) - 1) :
         IF n = Len(p) - 1 THEN p[Len(p)] = 129
         ELSE /\ p[n + 1] = 1
              /\ p[Len(p)] = 128
              /\ \A j \in (n + 2)..(Len(p) - 1) : p[j] = 0

\* C15: a trace on which every sponge constraint vanishes declares, in the
\* block_bits of its absorbed blocks up to the hash_end block, a byte message
\* followed by the 0x01 ... 0x80 padding.
C15_AcceptedBlocksArePadded ==
    (pc = "done" /\ result = "Ok" /\ violated = {}) => Pad10Star1Padded(TraceBytes)

\* C16: the public values handed to the prover are 16 field elements, as many
\* as num_public_values, each an unsigned value below 2^16.
C16_PublicValuesAre16BitLimbs ==
    result = "Ok" =>
        LET public_values == PublicValues(digest_limbs)
        IN /\ DOMAIN public_values = 0..15
           /\ Cardinality(DOMAIN public_values) = num_public_values
           /\ num_public_values = 16
           /\ \A i \in DOMAIN public_values :
                public_values[i] >= 0 /\ public_values[i] < 65536
C16_Witness ==
    /\ result = "Ok" /\ pc = "prove" /\ input_size = 1
    /\ \E i \in 0..15 : PublicValues(digest_limbs)[i] >= 32768

C18_MismatchIsFatal ==
    (computed_digest # << >> /\ computed_digest # digest) =>
        /\ pc = "done"
        /\ result = "keccak sponge simulation digest mismatch"
        /\ keccak_trace = << >>
        /\ values = << >>
        /\ digest_limbs = << >>
C18_Witness ==
    /\ pc = "done" /\ result = "keccak sponge simulation digest mismatch"
    /\ Len(computed_digest) = 32 /\ Len(digest) = 32 /\ computed_digest # digest

\* C19: a 136-byte message is padded to 272 bytes, two blocks.
C19_Pad136TwoBlocks ==
    (input_size = 136 /\ pc \in {"pad_done", "absorb", "done"}) =>
        /\ Len(padded) = 2 * RATE_BYTES
        /\ pc # "done"
        /\ pc = "absorb" => num_blocks = 2
C19_Witness ==
    /\ input_size = 136 /\ pc = "pad_done" /\ Len(padded) = 272
    /\ padded[137] = 1 /\ padded[272] = 128

\* lane (0..16) of the i-th padded block as a 64-bit word, little-endian
BlockLane(i, lane) ==
    {z \in 0..63 :
        (padded[i * RATE_BYTES + lane * 8 + (z \div 8) + 1] \div Pow2(z % 8)) % 2 = 1}
\* C20: the first permutation input is block 0 on the 17 rate lanes and zero
\* on the 8 capacity lanes; every later input is the previous permutation
\* output xor the next block on the rate lanes and the previous output itself
\* on the capacity lanes.
C20_AbsorptionChained ==
    \A i \in 1..Len(perm_inputs) :
        LET prev == IF i = 1 THEN [lane \in Lanes |-> {}] ELSE perm_outputs[i - 1]
        IN \A lane \in Lanes :
             perm_inputs[i][lane] =
                IF lane < 17
                THEN (prev[lane] \ BlockLane(i - 1, lane))
                         \cup (BlockLane(i - 1, lane) \ prev[lane])
                ELSE prev[lane]
C20_Witness ==
    /\ Len(perm_inputs) = 3 /\ pc = "permute"
    /\ perm_inputs[3][17] = perm_outputs[2][17] /\ perm_inputs[3][17] # {}
    /\ perm_inputs[3][0] # perm_outputs[2][0]
    /\ \A lane \in 17..24 : perm_inputs[1][lane] = {}

\* the trace as the generator returned it, before the constraint pass
TraceReturned ==
    /\ pc = "prove" /\ eval_row = 0 /\ result = "Ok" /\ tamper = TamperNone
\* exclusive or of two bits given as field elements 0 or 1
BitXor(a, b) == (a + b) % 2

\* C21: in a returned trace the absorb-chaining gate is 1 on exactly the
\* transitions from the last row of a real block to the first row of the
\* next real block, and 0 on every other transition (the one from the
\* hash_end row into the padding tail and the block boundaries inside the
\* tail included); where the gate is 1, each of the 1600 bits of the next
\* permutation's input recovered as A' xor C xor C' equals the local out_bit
\* xor the next block_bit below index 1088 and the local out_bit from 1088 on
C21_ChainingOnRealBoundaries ==
    TraceReturned =>
        \A r \in 0..(height - 2) :
            LET local == values[r]
                next == values[r + 1]
                real_boundary == ((r + 1) % NUM_ROUNDS = 0) /\ ((r + 1) \div NUM_ROUNDS < num_blocks)
            IN /\ BoundaryGate(local, next) = (IF real_boundary THEN F_ONE ELSE F_ZERO)
               /\ real_boundary =>
                    \A bit_idx \in 0..(STATE_BITS - 1) :
                        input_bit(next.keccak, (bit_idx \div 64) % 5,
                                  (bit_idx \div 64) \div 5, bit_idx % 64)
                        = (IF bit_idx < RATE_BITS
                           THEN BitXor(local.out_bits[bit_idx], next.block_bits[bit_idx])
                           ELSE local.out_bits[bit_idx])
\* a three-block trace: two real boundaries, then the boundary into the tail
\* and one inside the tail, with a set out_bit and a set block_bit chained
C21_Witness ==
    /\ TraceReturned /\ num_blocks = 3 /\ height = 128
    /\ BoundaryGate(values[23], values[24]) = F_ONE
    /\ BoundaryGate(values[47], values[48]) = F_ONE
    /\ BoundaryGate(values[71], values[72]) = F_ZERO
    /\ BoundaryGate(values[95], values[96]) = F_ZERO
    /\ values[72].keccak.step_flags[0] = 1 /\ values[71].hash_end = F_ONE
    /\ \E i \in 0..(RATE_BITS - 1) : values[23].out_bits[i] = 1 /\ values[24].block_bits[i] = 1
    /\ \E i \in RATE_BITS..(STATE_BITS - 1) : values[47].out_bits[i] = 1

\* C22: limb k of the returned digest_limbs is the 16 bits from 16*(k%4) of
\* output lane k/4 of the last real permutation, and that is the value the
\* digest check reads for limb k on the hash_end row: the final-round output
\* limb (y = 0, x = k/4, limb k%4); so the digest check holds on that row
\* against the returned limbs
C22_DigestLimbOrder ==
    result = "Ok" =>
        /\ \A k \in 0..(DIGEST_LIMBS - 1) :
            LET lane == k \div U64_LIMBS
                limb == k % U64_LIMBS
            IN /\ lane \div 5 = 0 /\ lane % 5 = lane
               /\ digest_limbs[k]
                    = BitsValue(perm_outputs[num_blocks][lane], BITS_PER_LIMB * limb,
                                BITS_PER_LIMB)
               /\ digest_limbs[k]
                    = a_prime_prime_prime(values[hash_end_row].keccak, 0, lane, limb)
        /\ values[hash_end_row].hash_end = F_ONE
        /\ DigestOk(values[hash_end_row], PublicValues(digest_limbs))
\* a two-block trace whose 16 limbs are not all equal, so that an order matters
C22_Witness ==
    /\ result = "Ok" /\ pc = "prove" /\ num_blocks = 2 /\ hash_end_row = 47
    /\ Cardinality({digest_limbs[k] : k \in 0..(DIGEST_LIMBS - 1)}) = DIGEST_LIMBS
    /\ digest_limbs[5] = a_prime_prime_prime(values[47].keccak, 0, 1, 1)

\* C23: the out_bits constraints are zero on every row of a returned trace,
\* whose out_bits on the final row of a real block are the bits of the
\* permutation output in the order lane (x + 5y), limb, bit; and a trace with
\* one out_bits entry replaced violates them on that row whenever the row is
\* not a final round (whatever its active flag) or is a final round with
\* active = 1
C23_OutBitsConstrained ==
    /\ TraceReturned =>
        \A r \in 0..(height - 1) :
            /\ OutBitsOk(values[r], values[r].keccak.step_flags[NUM_ROUNDS_MIN_1])
            /\ (r % NUM_ROUNDS = NUM_ROUNDS_MIN_1 /\ r \div NUM_ROUNDS < num_blocks) =>
                 \A lane \in 0..24 : \A limb \in 0..(U64_LIMBS - 1) :
                    \A i \in 0..(BITS_PER_LIMB - 1) :
                        values[r].out_bits[(lane * 64) + (limb * 16) + i]
                        = (IF ((limb * 16) + i) \in perm_outputs[(r \div NUM_ROUNDS) + 1][lane]
                           THEN 1 ELSE 0)
    /\ tamper.kind = "out" =>
        LET r == tamper.idx \div STATE_BITS
            final_step == values[r].keccak.step_flags[NUM_ROUNDS_MIN_1]
        IN (final_step = 0 \/ values[r].active = F_ONE) => << "out_bits", r >> \in violated
\* an entry set to 1 on a tail row (not final, active = 0), an entry flipped
\* on a real final row, and one made non-boolean there, each caught
C23_Witness ==
    /\ tamper.kind = "out" /\ pc = "out_checked" /\ << "out_bits", eval_row >> \in violated
    /\ \/ /\ eval_row = hash_end_row + 1 /\ values[eval_row].active = F_ZERO
          /\ tamper.val = 1
       \/ /\ eval_row = NUM_ROUNDS_MIN_1 /\ values[eval_row].active = F_ONE
          /\ tamper.val = 2 /\ tamper.idx % STATE_BITS = STATE_BITS - 1

\* C24: on every row of a flag assignment whose window passed the flag
\* constraints, hash_end is non-zero only if active = 1 and the final-step
\* flag is 1; and in every returned trace the row with hash_end = 1 is row
\* 24 * num_blocks - 1, the final-round row of the last real permutation,
\* with active = 1
C24_HashEndOnActiveFinalRow ==
    /\ (pc \in {"adv", "adv_done"} /\ violated = {}) =>
        \A r \in 1..Min(eval_row, Len(adv.rows)) :
            adv.rows[r].hash_end # F_ZERO =>
                /\ adv.rows[r].hash_end = F_ONE
                /\ adv.rows[r].active = F_ONE
                /\ adv.rows[r].final_step = 1
    /\ result = "Ok" =>
        /\ hash_end_row = (NUM_ROUNDS * num_blocks) - 1
        /\ values[hash_end_row].hash_end = F_ONE
        /\ values[hash_end_row].active = F_ONE
        /\ values[hash_end_row].keccak.step_flags[NUM_ROUNDS_MIN_1] = 1
        /\ \A lane \in 0..24 : \A limb \in 0..(U64_LIMBS - 1) :
              a_prime_prime_prime(values[hash_end_row].keccak, lane \div 5, lane % 5, limb)
              = BitsValue(perm_outputs[num_blocks][lane], BITS_PER_LIMB * limb,
                          BITS_PER_LIMB)
\* an accepted assignment whose second row carries hash_end = 1
C24_Witness ==
    /\ pc = "adv_done" /\ adv.height = 3
    /\ adv.rows[2].hash_end = F_ONE /\ adv.rows[2].active = F_ONE
    /\ adv.rows[2].final_step = 1 /\ adv.rows[1].final_step = 0

\* C25: the row width is W_perm + 3 + 1088 + 1600 in the generator and in the
\* AIR; the columns of hash_end, seen_end, active, block_bits and out_bits
\* are pairwise disjoint and together are exactly the columns from W_perm to
\* width - 1 (checked where the generator allocates the rows), so no write
\* of the generator lands in the first W_perm columns;
\* and in a returned trace the permutation part of every row is the row the
\* permutation trace builder returned
C25_ExtraColumnsLayout ==
    /\ width = NUM_KECCAK_COLS + 3 + 1088 + 1600
    /\ trace_width = width
    /\ pc = "alloc" =>
        /\ \A f \in ExtraFields : \A g \in ExtraFields \ {f} :
                ColumnsOf(f) \cap ColumnsOf(g) = {}
        /\ UNION {ColumnsOf(f) : f \in ExtraFields} = NUM_KECCAK_COLS..(width - 1)
        /\ Cardinality(ColumnsOf("block_bits")) = 1088
        /\ Cardinality(ColumnsOf("out_bits")) = 1600
    /\ TraceReturned =>
        /\ DOMAIN values = 0..(height - 1)
        /\ \A r \in 0..(height - 1) : values[r].keccak = keccak_trace[r + 1]
\* a returned two-block trace with every sponge field populated on row 47
C25_Witness ==
    /\ TraceReturned /\ num_blocks = 2 /\ height = 64
    /\ values[47].hash_end = F_ONE /\ values[47].active = F_ONE
    /\ values[48].seen_end = F_ONE
    /\ \E i \in 0..(RATE_BITS - 1) : values[47].block_bits[i] = F_ONE
    /\ \E i \in 0..(STATE_BITS - 1) : values[47].out_bits[i] = F_ONE
    /\ values[47].keccak = keccak_trace[48]
    /\ OUT_BITS_START + STATE_BITS = trace_width

\* C26: for every number n >= 1 of blocks the height is the power of two
\* next above 24n and hash_end_row = 24n - 1 is at most height - 2: the
\* error "keccak trace too short for expected hash_end row" is never raised,
\* and the row after the hash_end row exists and is filled with active = 0
\* and seen_end = 1
C26_TailRowAlwaysExists ==
    /\ result # "keccak trace too short for expected hash_end row"
    /\ pc \in {"fill_flags", "fill_block_bits"} =>
        LET n == Len(perm_outputs)
        IN /\ n >= 1
           /\ \E k \in 0..20 : height = Pow2(k)
           /\ height >= NUM_ROUNDS * n /\ height < 2 * NUM_ROUNDS * n
           /\ hash_end_row = (NUM_ROUNDS * n) - 1
           /\ hash_end_row <= height - 2
    /\ pc = "fill_block_bits" =>
        /\ values[hash_end_row].hash_end = F_ONE
        /\ values[hash_end_row + 1].active = F_ZERO
        /\ values[hash_end_row + 1].seen_end = F_ONE
\* 21 blocks: 504 rows of 512, the tightest fit below the bound
C26_Witness ==
    /\ pc = "fill_block_bits" /\ Len(perm_outputs) = 21 /\ height = 512
    /\ hash_end_row = 503
    /\ values[504].active = F_ZERO /\ values[504].seen_end = F_ONE
    /\ values[503].active = F_ONE

\* C27: active + seen_end = 1 (in the field) on every row of a trace once
\* the generator has filled the flags, and on every row of every flag
\* assignment whose first row passes the first-row constraints and whose
\* consecutive rows pass the flag-transition constraints
C27_ActivePlusSeenEndIsOne ==
    /\ (result = "Ok" \/ pc \in {"fill_block_bits", "fill_out_bits"}) =>
        \A r \in 0..(height - 1) : FAdd(values[r].active, values[r].seen_end) = F_ONE
    /\ pc = "chain" =>
        \A r \in 1..Len(adv.rows) :
            FAdd(adv.rows[r].active, adv.rows[r].seen_end) = F_ONE
\* an assignment with non-boolean flags that passes the two constraints:
\* hash_end = 2 on the first row gives seen_end = 2 and active = p - 1
C27_Witness ==
    /\ pc = "chain" /\ Len(adv.rows) = 3
    /\ adv.rows[1].hash_end = F_TWO
    /\ adv.rows[2].seen_end = F_TWO /\ adv.rows[2].active = P - 1
    /\ adv.rows[2].hash_end = F_ONE /\ adv.rows[3].seen_end = 3

\* C28: in a trace whose step flags cycle through the 24 rounds from a
\* first-round row at row 0 and whose rows pass the block_bits constraints
\* (boolean on first-round rows, equal across every transition whose local
\* row is not a final round), every block_bits entry of every row is 0 or 1
C28_BlockBitsBooleanEverywhere ==
    pc = "block_bits" =>
        \A r \in 1..Len(adv.rows) : \A i \in 0..(RATE_BITS - 1) :
            adv.rows[r].block_bits[i] \in {F_ZERO, F_ONE}
\* two permutations with different blocks: an entry set through the first
\* and cleared through the second
C28_Witness ==
    /\ pc = "block_bits" /\ Len(adv.rows) = MaxBbHeight
    /\ adv.rows[1].block_bits[0] = F_ONE /\ adv.rows[24].block_bits[0] = F_ONE
    /\ adv.rows[25].block_bits[0] = F_ZERO /\ adv.rows[48].block_bits[0] = F_ZERO
    /\ adv.rows[24].keccak.step_flags[NUM_ROUNDS_MIN_1] = 1
    /\ adv.rows[25].keccak.step_flags[0] = 1

\* C29: on every transition whose absorb-chaining gate is non-zero, the
\* local row has active = 1 and hash_end = 0, so the gate final_step * active
\* of the out_bits decomposition is 1 on the local row: in every flag
\* assignment whose window passed the flag constraints (the next row's
\* first-step flag taken as 1), and in every returned trace, where the local
\* out_bits also pass the decomposition constraints
C29_ChainingReadsConstrainedOutBits ==
    /\ (pc \in {"adv", "adv_done"} /\ violated = {}) =>
        \A r \in 1..(Len(adv.rows) - 1) :
            LET local == adv.rows[r]
                next == adv.rows[r + 1]
            IN (r <= eval_row /\ FMul(local.final_step, next.active) # F_ZERO) =>
                /\ local.active = F_ONE
                /\ local.hash_end = F_ZERO
                /\ FMul(local.final_step, local.active) = F_ONE
    /\ TraceReturned =>
        \A r \in 0..(height - 2) :
            BoundaryGate(values[r], values[r + 1]) # F_ZERO =>
                /\ values[r].active = F_ONE
                /\ values[r].hash_end = F_ZERO
                /\ FMul(values[r].keccak.step_flags[NUM_ROUNDS_MIN_1], values[r].active)
                     = F_ONE
                /\ OutBitsOk(values[r], values[r].keccak.step_flags[NUM_ROUNDS_MIN_1])
\* an accepted assignment with a gated transition from row 0 to row 1 and
\* the end of the hash on row 1
C29_Witness ==
    /\ pc = "adv_done" /\ adv.height = 3
    /\ adv.rows[1].final_step = 1 /\ adv.rows[2].active = F_ONE
    /\ adv.rows[1].active = F_ONE /\ adv.rows[1].hash_end = F_ZERO
    /\ adv.rows[2].hash_end = F_ONE /\ adv.rows[3].active = F_ZERO

\* the shape of the buffer while keccak_pad10star1 runs and after it returned
PadShape ==
    LET L == input_size
        n == Len(padded)
    IN /\ pc = "pad_zeros" =>
            /\ n >= L + 1 /\ n <= L + RATE_BYTES
            /\ padded[L + 1] = 1
            /\ \A i \in 1..L : padded[i] = msg[i]
            /\ \A i \in (L + 2)..n : padded[i] = 0
       /\ pc \in {"pad_done", "absorb", "done"} =>
            /\ \A i \in 1..L : padded[i] = msg[i]
            /\ padded[L + 1] = 1
            /\ padded[n] = 128
            /\ L + 1 < n
            /\ \A i \in (L + 2)..(n - 1) : padded[i] = 0
            /\ n - L >= 2 /\ n - L <= RATE_BYTES + 1
====
